---- MODULE Spec2Model ----
(***************************************************************************)
(* The request handlers of src/index.ts (an Express application in front   *)
(* of a Supabase store, authenticated by Clerk) as a state machine.        *)
(*                                                                         *)
(* A request is received (the synchronous part of its handler up to the    *)
(* first await runs with the receipt), then advances by one action per     *)
(* awaited store call; the code that follows the call, up to the next      *)
(* await or the response, belongs to the same action.  Several requests    *)
(* may be in flight, so the store calls of different requests interleave.  *)
(* The requests in flight are a bag: two of them may be alike.             *)
(* The store's tables are sets of rows.                                    *)
(***************************************************************************)
EXTENDS Naturals, Sequences, FiniteSets, Bags

VARIABLES alliances, alliance_members, battle_events, stats,
          inflight, resp, served, lastUpsert

vars == <<alliances, alliance_members, battle_events, stats,
          inflight, resp, served, lastUpsert>>

store == <<alliances, alliance_members, battle_events, stats>>

(* ------------------------------ bounds -------------------------------- *)

\* requests received in one behaviour
MaxReqs == 2

\* requests in flight at the same time
MaxInFlight == 2

(* ------------------------------ domains ------------------------------- *)

\* req.auth.userId of an authenticated request
Principals == {"U1", "U2"}

\* req.auth.userId when the request carries no valid session
NoUser == "null"

AllianceIds == {"A1", "A2"}

MemberIds == {"M1", "M2"}

\* what new Date().toISOString() may return
Times == {"2026-01-01T00:00:00.000Z", "2026-01-01T00:00:01.000Z"}

\* the three *_stats tables
Kinds == {"military", "resources", "development"}

\* JSON values of req.body.stats, by JavaScript type
JUndefined == [type |-> "undefined", v |-> ""]

JNull == [type |-> "null", v |-> ""]

JFalse == [type |-> "boolean", v |-> "false"]

JZero == [type |-> "number", v |-> "0"]

JEmptyString == [type |-> "string", v |-> ""]

JEmptyObject == [type |-> "object", v |-> "{}"]

JAttack10 == [type |-> "object", v |-> "{attack:10}"]

JAttack12 == [type |-> "object", v |-> "{attack:12}"]

Payloads == {JUndefined, JNull, JFalse, JZero, JEmptyString,
             JEmptyObject, JAttack10, JAttack12}

\* JavaScript ToBoolean, as applied by `!stats`
Truthy(j) ==
    CASE j.type = "undefined" -> FALSE
      [] j.type = "null"      -> FALSE
      [] j.type = "boolean"   -> j.v = "true"
      [] j.type = "number"    -> j.v \notin {"0", "-0", "NaN"}
      [] j.type = "string"    -> j.v # ""
      [] OTHER                -> TRUE

(* --------------------------- response texts --------------------------- *)

MsgUnauthorized == "Unauthorized"

MsgStatsRequired == "Stats required"

MsgForbidden == "Forbidden: You are not the manager of this alliance"

MsgSomethingWrong == "Something went wrong!"

\* error.message of the store when .single() does not find exactly one row
StoreMsgNoRows == "JSON object requested, multiple (or no) rows returned"

\* error.message of the store when the call itself fails
StoreMsgFailed == "store: request failed"

StoreMessages == {StoreMsgNoRows, StoreMsgFailed}

(* ------------------------------ the store ----------------------------- *)

\* .select(...).eq(col, val): the rows whose column col equals val
SelectEq(table, col, val) == {r \in table : r[col] = val}

\* .select('a, b'): the rows cut to the selected columns
Project(rows, cols) == {[c \in cols |-> r[c]] : r \in rows}

\* the result {data, error} of a query; failed: the call itself failed
Result(rows, failed) ==
    IF failed THEN [data |-> {}, error |-> StoreMsgFailed]
    ELSE [data |-> rows, error |-> ""]

\* .single(): data is the one row; no row or several rows is an error
Single(res) ==
    IF res.error # "" THEN res
    ELSE IF Cardinality(res.data) = 1 THEN res
    ELSE [data |-> {}, error |-> StoreMsgNoRows]

\* plain insert: what .upsert must not be
Insert(table, row) == table \cup {row}

\* .upsert(row) on a *_stats table, whose key is user_id: create or replace
Upsert(table, row) ==
    {r \in table : r.user_id # row.user_id} \cup {row}

\* a handler copied from its neighbour with the neighbour's table name left in
CopiedTarget(kind) == IF kind = "development" THEN "resources" ELSE kind

\* .from('<kind>_stats') of the POST handler of kind
UpsertTarget(kind) == kind

(* ------------------------------ requests ------------------------------ *)

OpStatGet == "GET /api/<kind>-stats"

OpStatPost == "POST /api/<kind>-stats"

OpAlliances == "GET /api/alliances"

OpAllianceMembers == "GET /api/alliance-members/:allianceId"

OpBattleEvents == "GET /api/battle-events/:allianceMemberId"

OpAny == "any /api route"

\* A request: its inputs (op, kind, userId, param, stats), the handler's
\* position (pc) and locals (created_at, member, alliance), its response
\* (status, error, data) and, as history, the store calls it issued (reads,
\* writes), the unprojected rows its response was cut from (src), whether a
\* store call of its own failed (storeFailed), and the managers the store
\* held for the checked alliance when the check (mgrAtCheck) and the final
\* read (mgrAtRead) were executed.
NewReq(op, kind, userId, param, payload) ==
    [op |-> op, kind |-> kind, userId |-> userId, param |-> param,
     stats |-> payload, created_at |-> "", pc |-> "start",
     member |-> {}, alliance |-> {}, reads |-> <<>>, writes |-> 0,
     status |-> 0, error |-> "", data |-> {}, src |-> {},
     storeFailed |-> FALSE, mgrAtCheck |-> {}, mgrAtRead |-> {}]

\* the last step completed no request
NoResp == [NewReq("none", "none", NoUser, "none", JUndefined)
             EXCEPT !.pc = "none"]

\* res.status(status).json({ error }) and res.json(data)
RespondError(r, status, msg) ==
    [r EXCEPT !.pc = "done", !.status = status, !.error = msg]

RespondData(r, rows) ==
    [r EXCEPT !.pc = "done", !.status = 200, !.data = rows]

\* the request r leaves the handler with response done; resp is the
\* response the last step sent, if it sent one
Complete(r, done) ==
    /\ inflight' = inflight (-) SetToBag({r})
    /\ resp' = done

\* the request r goes on to its next store call as next
Continue(r, next) ==
    /\ inflight' = (inflight (-) SetToBag({r})) (+) SetToBag({next})
    /\ resp' = NoResp

\* a request enters its handler
Admit(next) ==
    /\ BagCardinality(inflight) < MaxInFlight
    /\ inflight' = inflight (+) SetToBag({next})
    /\ resp' = NoResp

(* --------------------------- authentication --------------------------- *)

\* the final error middleware
ErrorMiddleware(r) == RespondError(r, 500, MsgSomethingWrong)

\* handleClerkAuthError: errStatus is err.status, 0 when the error has none
HandleClerkAuthError(r, errStatus) ==
    IF errStatus = 401 \/ errStatus = 403
    THEN RespondError(r, errStatus, MsgUnauthorized)
    ELSE ErrorMiddleware(r)

\* A request without a session: ClerkExpressRequireAuth passes an error to
\* next, and no handler runs.
ReceiveUnauthenticated(errStatus) ==
    /\ served < MaxReqs
    /\ served' = served + 1
    /\ resp' = HandleClerkAuthError(
                  NewReq(OpAny, "none", NoUser, "none", JUndefined),
                  errStatus)
    /\ UNCHANGED <<store, inflight, lastUpsert>>

(* ---------------------------- stat handlers --------------------------- *)

\* the guard `!stats` of the three POST handlers
StatsMissing(payload) == ~Truthy(payload)

\* the read without its filter: every row of the table
AllRowsOf(table, userId) == table

\* .eq('user_id', userId): the caller's own rows of a *_stats table
OwnRowsOf(table, userId) == SelectEq(table, "user_id", userId)

\* GET /api/<kind>-stats, up to the store call
ReceiveStatGet(u, k) ==
    /\ served < MaxReqs
    /\ served' = served + 1
    /\ Admit([NewReq(OpStatGet, k, u, "none", JUndefined)
                EXCEPT !.pc = "read"])
    /\ UNCHANGED <<store, lastUpsert>>

\* .from('<kind>_stats').select('stats').eq('user_id', userId), and the response
StatGetRead(r, failed) ==
    /\ BagIn(r, inflight) /\ r.op = OpStatGet /\ r.pc = "read"
    /\ LET rows == OwnRowsOf(stats[r.kind], r.userId)
           res == Result(Project(rows, {"stats"}), failed)
           r1 == [r EXCEPT !.reads = Append(@, r.kind),
                           !.storeFailed = failed,
                           !.src = IF failed THEN {} ELSE rows]
       IN  Complete(r, IF res.error # ""
                       THEN RespondError(r1, 500, res.error)
                       ELSE RespondData(r1, res.data))
    /\ UNCHANGED <<store, served, lastUpsert>>

\* POST /api/<kind>-stats, up to the store call: the guard, and the row with
\* created_at: new Date().toISOString()
ReceiveStatPost(u, k, payload, now) ==
    /\ served < MaxReqs
    /\ served' = served + 1
    /\ LET r == NewReq(OpStatPost, k, u, "none", payload)
       IN  IF StatsMissing(payload)
           THEN /\ resp' = RespondError(r, 400, MsgStatsRequired)
                /\ UNCHANGED inflight
           ELSE Admit([r EXCEPT !.pc = "upsert", !.created_at = now])
    /\ UNCHANGED <<store, lastUpsert>>

\* the row the handler hands to .upsert
UpsertRow(r) ==
    [user_id |-> r.userId, stats |-> r.stats, created_at |-> r.created_at]

\* .from('<kind>_stats').upsert(row).select(), and the response
StatPostUpsert(r, failed) ==
    /\ BagIn(r, inflight) /\ r.op = OpStatPost /\ r.pc = "upsert"
    /\ LET row == UpsertRow(r)
           t == UpsertTarget(r.kind)
           res == Result({row}, failed)
           r1 == [r EXCEPT !.writes = @ + 1, !.storeFailed = failed,
                           !.src = res.data]
       IN  /\ stats' = IF failed THEN stats
                       ELSE [stats EXCEPT ![t] = Upsert(@, row)]
           /\ lastUpsert' = IF failed THEN lastUpsert
                            ELSE [lastUpsert EXCEPT ![<<r.kind, r.userId>>] =
                                    [n |-> IF @.n < 2 THEN @.n + 1 ELSE @.n,
                                     stats |-> r.stats]]
           /\ Complete(r, IF res.error # ""
                          THEN RespondError(r1, 500, res.error)
                          ELSE RespondData(r1, res.data))
    /\ UNCHANGED <<alliances, alliance_members, battle_events, served>>

(* -------------------------- alliance handlers ------------------------- *)

\* GET /api/alliances, up to the store call
ReceiveAlliances(u) ==
    /\ served < MaxReqs
    /\ served' = served + 1
    /\ Admit([NewReq(OpAlliances, "none", u, "none", JUndefined)
                EXCEPT !.pc = "read"])
    /\ UNCHANGED <<store, lastUpsert>>

\* .from('alliances').select('*').eq('manager_id', userId), and the response
AlliancesRead(r, failed) ==
    /\ BagIn(r, inflight) /\ r.op = OpAlliances /\ r.pc = "read"
    /\ LET rows == SelectEq(alliances, "manager_id", r.userId)
           res == Result(rows, failed)
           r1 == [r EXCEPT !.reads = Append(@, "alliances"),
                           !.storeFailed = failed, !.src = res.data]
       IN  Complete(r, IF res.error # ""
                       THEN RespondError(r1, 500, res.error)
                       ELSE RespondData(r1, res.data))
    /\ UNCHANGED <<store, served, lastUpsert>>

\* .from('alliances').select('manager_id').eq('id', allianceId).single()
ReadManager(table, allianceId, failed) ==
    Single(Result(Project(SelectEq(table, "id", allianceId), {"manager_id"}),
                  failed))

\* .from('alliance_members').select('alliance_id').eq('id', memberId).single()
ReadMember(table, memberId, failed) ==
    Single(Result(Project(SelectEq(table, "id", memberId), {"alliance_id"}),
                  failed))

\* the manager_id values the store holds for alliance allianceId
ManagersOf(allianceId) ==
    {a.manager_id : a \in SelectEq(alliances, "id", allianceId)}

\* the guard with && for ||: an error alone does not deny
DeniedOnlyWithError(res, userId) ==
    res.error # "" /\ \E a \in res.data : a.manager_id # userId

\* the guard without its comparison: only an error denies
DeniedOnError(res, userId) == res.error # ""

\* the guard with == for !==: the manager is denied
DeniedIfManager(res, userId) ==
    res.error # "" \/ \E a \in res.data : a.manager_id = userId

\* the guard of alliance-members:
\* allianceError || alliance.manager_id !== userId
AllianceMembersDenied(res, userId) ==
    res.error # "" \/ \E a \in res.data : a.manager_id # userId

\* the guard of battle-events:
\* allianceError || alliance.manager_id !== userId
BattleEventsDenied(res, userId) ==
    res.error # "" \/ \E a \in res.data : a.manager_id # userId

\* GET /api/alliance-members/:allianceId, up to the first store call
ReceiveAllianceMembers(u, a) ==
    /\ served < MaxReqs
    /\ served' = served + 1
    /\ Admit([NewReq(OpAllianceMembers, "none", u, a, JUndefined)
                EXCEPT !.pc = "check"])
    /\ UNCHANGED <<store, lastUpsert>>

\* the read of the alliance's manager_id and the guard on it
AllianceMembersCheck(r, failed) ==
    /\ BagIn(r, inflight) /\ r.op = OpAllianceMembers /\ r.pc = "check"
    /\ LET res == ReadManager(alliances, r.param, failed)
           r1 == [r EXCEPT !.reads = Append(@, "alliances"),
                           !.storeFailed = failed,
                           !.alliance = res.data,
                           !.mgrAtCheck = ManagersOf(r.param)]
       IN  IF AllianceMembersDenied(res, r.userId)
           THEN Complete(r, RespondError(r1, 403, MsgForbidden))
           ELSE Continue(r, [r1 EXCEPT !.pc = "fetch"])
    /\ UNCHANGED <<store, served, lastUpsert>>

\* .from('alliance_members').select('*').eq('alliance_id', allianceId),
\* and the response
AllianceMembersFetch(r, failed) ==
    /\ BagIn(r, inflight) /\ r.op = OpAllianceMembers /\ r.pc = "fetch"
    /\ LET res == Result(SelectEq(alliance_members, "alliance_id", r.param),
                         failed)
           r1 == [r EXCEPT !.reads = Append(@, "alliance_members"),
                           !.storeFailed = failed, !.src = res.data,
                           !.mgrAtRead = ManagersOf(r.param)]
       IN  Complete(r, IF res.error # ""
                       THEN RespondError(r1, 500, res.error)
                       ELSE RespondData(r1, res.data))
    /\ UNCHANGED <<store, served, lastUpsert>>

\* GET /api/battle-events/:allianceMemberId, up to the first store call
ReceiveBattleEvents(u, m) ==
    /\ served < MaxReqs
    /\ served' = served + 1
    /\ Admit([NewReq(OpBattleEvents, "none", u, m, JUndefined)
                EXCEPT !.pc = "member"])
    /\ UNCHANGED <<store, lastUpsert>>

\* the read of the member's alliance_id, and the response on memberError
BattleEventsMember(r, failed) ==
    /\ BagIn(r, inflight) /\ r.op = OpBattleEvents /\ r.pc = "member"
    /\ LET res == ReadMember(alliance_members, r.param, failed)
           r1 == [r EXCEPT !.reads = Append(@, "alliance_members"),
                           !.storeFailed = failed,
                           !.member = res.data]
       IN  IF res.error # ""
           THEN Complete(r, RespondError(r1, 500, res.error))
           ELSE Continue(r, [r1 EXCEPT !.pc = "check"])
    /\ UNCHANGED <<store, served, lastUpsert>>

\* member.alliance_id of a request that holds its member row
MemberAllianceId(r) == (CHOOSE m \in r.member : TRUE).alliance_id

\* the read of the alliance's manager_id and the guard on it
BattleEventsCheck(r, failed) ==
    /\ BagIn(r, inflight) /\ r.op = OpBattleEvents /\ r.pc = "check"
    /\ LET res == ReadManager(alliances, MemberAllianceId(r), failed)
           r1 == [r EXCEPT !.reads = Append(@, "alliances"),
                           !.storeFailed = failed,
                           !.alliance = res.data,
                           !.mgrAtCheck = ManagersOf(MemberAllianceId(r))]
       IN  IF BattleEventsDenied(res, r.userId)
           THEN Complete(r, RespondError(r1, 403, MsgForbidden))
           ELSE Continue(r, [r1 EXCEPT !.pc = "fetch"])
    /\ UNCHANGED <<store, served, lastUpsert>>

\* .from('battle_events').select('*').eq('alliance_member_id', memberId),
\* and the response
BattleEventsFetch(r, failed) ==
    /\ BagIn(r, inflight) /\ r.op = OpBattleEvents /\ r.pc = "fetch"
    /\ LET res == Result(SelectEq(battle_events, "alliance_member_id", r.param),
                         failed)
           r1 == [r EXCEPT !.reads = Append(@, "battle_events"),
                           !.storeFailed = failed, !.src = res.data,
                           !.mgrAtRead = ManagersOf(MemberAllianceId(r))]
       IN  Complete(r, IF res.error # ""
                       THEN RespondError(r1, 500, res.error)
                       ELSE RespondData(r1, res.data))
    /\ UNCHANGED <<store, served, lastUpsert>>

(* ------------------------- the rows of the store ---------------------- *)

\* a table has at most one row per id
UniqueIds(table) == \A x, y \in table : x.id = y.id => x = y

AllianceRows == [id : AllianceIds, manager_id : Principals]

MemberRows == [id : MemberIds, alliance_id : AllianceIds]

\* the battle events of the store: two of M1, one of M2
EventRows == {[id |-> "E1", alliance_member_id |-> "M1"],
              [id |-> "E2", alliance_member_id |-> "M1"],
              [id |-> "E3", alliance_member_id |-> "M2"]}

(* --------------------------- the other actors ------------------------- *)

\* another actor of the store makes u the manager of alliance a
EnvSetManager(a, u) ==
    /\ \E x \in alliances : x.id = a /\ x.manager_id # u
    /\ alliances' = {x \in alliances : x.id # a}
                      \cup {[id |-> a, manager_id |-> u]}
    /\ resp' = NoResp
    /\ UNCHANGED <<alliance_members, battle_events, stats,
                   inflight, served, lastUpsert>>

\* another actor of the store deletes alliance a
EnvDeleteAlliance(a) ==
    /\ \E x \in alliances : x.id = a
    /\ alliances' = {x \in alliances : x.id # a}
    /\ resp' = NoResp
    /\ UNCHANGED <<alliance_members, battle_events, stats,
                   inflight, served, lastUpsert>>

(* --------------------------- specifications --------------------------- *)

\* The store before the first request: any alliances and members with
\* unique ids (a member may name an alliance that is not there), the
\* battle events, and no stat record.
Init ==
    /\ alliances \in {t \in SUBSET AllianceRows : UniqueIds(t)}
    /\ alliance_members \in {t \in SUBSET MemberRows : UniqueIds(t)}
    /\ battle_events = EventRows
    /\ stats = [k \in Kinds |-> {}]
    /\ inflight = EmptyBag
    /\ resp = NoResp
    /\ served = 0
    /\ lastUpsert = [key \in Kinds \X Principals |->
                       [n |-> 0, stats |-> JUndefined]]

\* the store of the scenario: U1 manages A1, whose member is M1; the
\* alliance A2 of member M2 has been deleted
InitScenario ==
    /\ Init
    /\ alliances = {[id |-> "A1", manager_id |-> "U1"]}
    /\ alliance_members = {[id |-> "M1", alliance_id |-> "A1"],
                           [id |-> "M2", alliance_id |-> "A2"]}

\* a store whose chains are whole: U1 manages A1, U2 manages A2, M1 is a
\* member of A1 and M2 of A2
InitEnv ==
    /\ Init
    /\ alliances = {[id |-> "A1", manager_id |-> "U1"],
                    [id |-> "A2", manager_id |-> "U2"]}
    /\ alliance_members = {[id |-> "M1", alliance_id |-> "A1"],
                           [id |-> "M2", alliance_id |-> "A2"]}

StatNext ==
    \/ \E u \in Principals, k \in Kinds : ReceiveStatGet(u, k)
    \/ \E r \in BagToSet(inflight), failed \in BOOLEAN : StatGetRead(r, failed)
    \/ \E r \in BagToSet(inflight), failed \in BOOLEAN :
          StatPostUpsert(r, failed)
    \/ \E u \in Principals, k \in Kinds, j \in Payloads, now \in Times :
          ReceiveStatPost(u, k, j, now)

AllianceNext ==
    \/ \E u \in Principals : ReceiveAlliances(u)
    \/ \E u \in Principals, a \in AllianceIds : ReceiveAllianceMembers(u, a)
    \/ \E u \in Principals, m \in MemberIds : ReceiveBattleEvents(u, m)
    \/ \E r \in BagToSet(inflight), failed \in BOOLEAN :
          AlliancesRead(r, failed)
    \/ \E r \in BagToSet(inflight), failed \in BOOLEAN :
          AllianceMembersCheck(r, failed)
    \/ \E r \in BagToSet(inflight), failed \in BOOLEAN :
          AllianceMembersFetch(r, failed)
    \/ \E r \in BagToSet(inflight), failed \in BOOLEAN :
          BattleEventsMember(r, failed)
    \/ \E r \in BagToSet(inflight), failed \in BOOLEAN :
          BattleEventsCheck(r, failed)
    \/ \E r \in BagToSet(inflight), failed \in BOOLEAN :
          BattleEventsFetch(r, failed)

AuthNext == \E e \in {0, 401, 403} : ReceiveUnauthenticated(e)

EnvNext ==
    \/ \E a \in AllianceIds, u \in Principals : EnvSetManager(a, u)
    \/ \E a \in AllianceIds : EnvDeleteAlliance(a)

\* the payloads tried when every handler runs: absent, empty, filled
FewPayloads == {JUndefined, JEmptyObject, JAttack10}

Next ==
    \/ \E u \in Principals, k \in Kinds : ReceiveStatGet(u, k)
    \/ \E r \in BagToSet(inflight), failed \in BOOLEAN : StatGetRead(r, failed)
    \/ \E r \in BagToSet(inflight), failed \in BOOLEAN :
          StatPostUpsert(r, failed)
    \/ \E u \in Principals, k \in Kinds, j \in FewPayloads, now \in Times :
          ReceiveStatPost(u, k, j, now)
    \/ AllianceNext
    \/ AuthNext

\* every handler, no other actor of the store
Spec == InitScenario /\ [][Next]_vars

\* the stat handlers alone, with every payload
SpecStats == InitScenario /\ [][StatNext \/ AuthNext]_vars

\* the alliance handlers alone
SpecAuth == Init /\ [][AllianceNext \/ AuthNext]_vars

\* the alliance handlers with other actors changing the alliances
SpecEnv == InitEnv /\ [][AllianceNext \/ AuthNext \/ EnvNext]_vars

(* ------------------------------- claims ------------------------------- *)

\* the last step sent the response of a request of operation op
Responded(op) == resp.pc = "done" /\ resp.op = op

\* the requests the state knows: those in flight and the one just answered
Known == BagToSet(inflight) \cup {resp}

\* the alliance whose manager the request r is checked against, when the
\* store holds the rows that name it
ChainAlliance(r) ==
    IF r.op = OpAllianceMembers THEN {r.param}
    ELSE {m.alliance_id : m \in SelectEq(alliance_members, "id", r.param)}

\* a row of the ownership chain of request r is missing from the store
ChainRowMissing(r) ==
    \/ ChainAlliance(r) = {}
    \/ \E a \in ChainAlliance(r) : SelectEq(alliances, "id", a) = {}

\* C1: for every principal and every alliance-members or battle-events
\* request, if a row of the ownership chain is missing (and no store call of
\* the request failed otherwise), the response is the NotFound denial (404):
\* never 403, never 500.
C1_MissingRowIsNotFound ==
    \A op \in {OpAllianceMembers, OpBattleEvents} :
        (Responded(op) /\ ~resp.storeFailed /\ ChainRowMissing(resp))
            => resp.status = 404

\* the hops of the chain of the answered request all returned their rows
ChainResolved == resp.alliance # {}

\* the table the request r is about
TargetOf(r) ==
    IF r.op = OpAllianceMembers THEN "alliance_members" ELSE "battle_events"

\* the rows of the target table the request r asks for
TargetRows(r) ==
    IF r.op = OpAllianceMembers
    THEN SelectEq(alliance_members, "alliance_id", r.param)
    ELSE SelectEq(battle_events, "alliance_member_id", r.param)

InSeq(x, seq) == \E i \in 1..Len(seq) : seq[i] = x

\* C2: for every alliance-members or battle-events request whose chain
\* resolved, the target rows are returned (200; or the final read itself
\* failed at the store) if and only if the principal is the manager the
\* store held at the check; every other principal gets the Forbidden
\* denial (403) and no rows.
C2_AllowIffManager ==
    \A op \in {OpAllianceMembers, OpBattleEvents} :
        (Responded(op) /\ ChainResolved) =>
            /\ resp.status = 200 => resp.mgrAtCheck = {resp.userId}
            /\ resp.mgrAtCheck = {resp.userId} =>
                  IF resp.storeFailed
                  THEN resp.status = 500 /\ resp.data = {}
                  ELSE resp.status = 200 /\ resp.data = TargetRows(resp)
            /\ resp.mgrAtCheck # {resp.userId} =>
                  /\ resp.status = 403
                  /\ resp.error = MsgForbidden
                  /\ resp.data = {}
                  /\ ~InSeq(TargetOf(resp), resp.reads)

\* the manager of a resolved chain got the rows
C2_Witness ==
    /\ Responded(OpBattleEvents)
    /\ resp.status = 200
    /\ resp.data # {}
    /\ resp.mgrAtCheck = {resp.userId}

\* the store calls of a handler, in the order of its code
ReadsOf(op) ==
    IF op = OpAllianceMembers THEN <<"alliances", "alliance_members">>
    ELSE <<"alliance_members", "alliances", "battle_events">>

\* C3: in every alliance-members or battle-events request, the target
\* collection is read only as the last store call, after the check found
\* the principal to be the manager; a request that was denied or whose hop
\* failed has issued no store call after the failing one.
C3_CheckPrecedesFetch ==
    \A r \in Known :
        r.op \in {OpAllianceMembers, OpBattleEvents} =>
            /\ r.reads = SubSeq(ReadsOf(r.op), 1, Len(r.reads))
            /\ (r.reads = ReadsOf(r.op) \/ r.pc = "fetch") =>
                  /\ r.mgrAtCheck = {r.userId}
                  /\ \A a \in r.alliance : a.manager_id = r.userId
                  /\ r.alliance # {}
            /\ (r.pc = "done" /\ r.status = 403) =>
                  r.reads = SubSeq(ReadsOf(r.op), 1, Len(ReadsOf(r.op)) - 1)
            /\ (r.pc = "done" /\ r.op = OpBattleEvents /\ r.member = {}) =>
                  r.reads = <<"alliance_members">>

\* a battle-events request was denied at the check, after two hops
C3_Witness ==
    /\ Responded(OpBattleEvents)
    /\ resp.status = 403
    /\ resp.reads = <<"alliance_members", "alliances">>

\* C4: after any interleaving of successful stat upserts, the store holds at
\* most one record per (principal, kind), and exactly one, with the stats
\* of the most recent upsert, once the principal has upserted that kind.
C4_OneRecordLastWriteWins ==
    \A k \in Kinds, u \in Principals :
        LET rows == SelectEq(stats[k], "user_id", u)
        IN  /\ Cardinality(rows) <= 1
            /\ lastUpsert[<<k, u>>].n > 0 =>
                  /\ Cardinality(rows) = 1
                  /\ \A row \in rows : row.stats = lastUpsert[<<k, u>>].stats

\* U1 has upserted its military stats twice; the second payload is stored
C4_Witness ==
    /\ lastUpsert[<<"military", "U1">>].n = 2
    /\ Responded(OpStatPost)
    /\ resp.stats = JAttack12
    /\ \E row \in stats["military"] : row.stats = JAttack12

\* a stat read returns only rows of the principal that reads
C5_ReadsOwnRows ==
    Responded(OpStatGet) => \A row \in resp.src : row.user_id = resp.userId

\* a step changes the record of (u, k) only as a successful upsert of kind k
\* made as u
C5_WritesOwnRecord ==
    \A k \in Kinds, u \in Principals :
        SelectEq(stats'[k], "user_id", u) # SelectEq(stats[k], "user_id", u)
            => /\ resp'.pc = "done" /\ resp'.op = OpStatPost
               /\ resp'.status = 200
               /\ resp'.userId = u /\ resp'.kind = k

\* C5: for all principals P # Q and every kind, an upsert made as P changes
\* only the record of (P, kind), and a stat read made as Q never returns a
\* record whose user_id is P.
C5_StatIsolation == []C5_ReadsOwnRows /\ [][C5_WritesOwnRecord]_vars

\* a read found nothing while another principal's record of that kind is
\* stored
C5_Witness ==
    /\ Responded(OpStatGet)
    /\ resp.status = 200
    /\ resp.data = {}
    /\ \E row \in stats[resp.kind] : row.user_id # resp.userId

\* a payload that is empty or absent
EmptyOrAbsent(j) ==
    \/ j.type \in {"undefined", "null"}
    \/ j = JEmptyString
    \/ j = JEmptyObject

\* C6: a stat upsert whose payload is empty or absent fails with 400 'Stats
\* required' and issues no store write; an upsert reaches the store only
\* with a non-empty payload.
C6_EmptyPayloadRejected ==
    /\ (Responded(OpStatPost) /\ EmptyOrAbsent(resp.stats)) =>
          /\ resp.status = 400
          /\ resp.error = MsgStatsRequired
          /\ resp.writes = 0
    /\ \A r \in BagToSet(inflight) :
          (r.op = OpStatPost /\ r.pc = "upsert") => ~EmptyOrAbsent(r.stats)

\* C7: no failure response carries the store's raw error string.
C7_NoStoreDetailInFailures ==
    (resp.pc = "done" /\ resp.status >= 400) => resp.error \notin StoreMessages

\* the outcome of the check a response tells
OutcomeOf(status) ==
    CASE status = 200 -> "Allow"
      [] status = 403 -> "Forbidden"
      [] status = 404 -> "NotFound"
      [] OTHER        -> "Error"

\* the alliance-level check of the alliance-members request on alliance a
AllianceLevelOutcome(u, a) ==
    IF AllianceMembersDenied(ReadManager(alliances, a, FALSE), u)
    THEN "Forbidden" ELSE "Allow"

\* the hops composed by hand: the member's alliance_id is read (a member
\* that is not there is NotFound), then the alliance-level check runs on it
HandComposedOutcome(u, m) ==
    LET res == ReadMember(alliance_members, m, FALSE)
    IN  IF res.error # "" THEN "NotFound"
        ELSE AllianceLevelOutcome(u, (CHOOSE x \in res.data : TRUE).alliance_id)

\* C8: for every principal and member id, over every store content, the
\* check of the battle-events request yields the outcome of the hops
\* composed by hand (no store call failing otherwise).
C8_TwoHopEqualsComposed ==
    (Responded(OpBattleEvents) /\ ~resp.storeFailed) =>
        OutcomeOf(resp.status) = HandComposedOutcome(resp.userId, resp.param)

\* C9: in every interleaving with other actors changing the alliances, a
\* request that goes on to read, or has returned, the target rows was made
\* by the principal the store held as the manager at the moment of the
\* check (the rows may be read when that is no longer so: C9_Witness).
C9_ManagerAtCheck ==
    \A r \in Known :
        (/\ r.op \in {OpAllianceMembers, OpBattleEvents}
         /\ r.pc = "fetch" \/ (r.pc = "done" /\ r.status = 200))
            => r.mgrAtCheck = {r.userId}

\* rows were returned to a principal who was not the manager when they
\* were read
C9_Witness ==
    /\ resp.pc = "done"
    /\ resp.op \in {OpAllianceMembers, OpBattleEvents}
    /\ resp.status = 200
    /\ resp.data # {}
    /\ resp.mgrAtCheck = {resp.userId}
    /\ resp.mgrAtRead # {resp.userId}

\* a step that changes the store is a successful stat upsert, and changes
\* the stats collection of its kind alone
C10_Frame ==
    store' # store =>
        /\ resp'.pc = "done" /\ resp'.op = OpStatPost /\ resp'.status = 200
        /\ alliances' = alliances
        /\ alliance_members' = alliance_members
        /\ battle_events' = battle_events
        /\ \A k \in Kinds : k # resp'.kind => stats'[k] = stats[k]

\* C10: every read request, whether it ends in Allow, Deny or a storage
\* error, leaves every collection unchanged; only the stat upserts change
\* the store, each its own stats collection.
C10_ReadsLeaveStore == [][C10_Frame]_vars

\* a read was denied while stat records are stored
C10_Witness ==
    /\ resp.pc = "done"
    /\ resp.op \in {OpAllianceMembers, OpBattleEvents}
    /\ resp.status = 403
    /\ \E k \in Kinds : stats[k] # {}

====
